---------------------------- MODULE Spec2Model ----------------------------
(***************************************************************************)
(* go-conversions: one run of the pipeline of src/main.go.                 *)
(*                                                                         *)
(*   main -> Main -> Generate -> Compile -> Report -> exit                 *)
(*                                                                         *)
(* Strings are TLA+ strings and are taken apart character by character     *)
(* (Len, SubSeq, \o), so that strings.Split, strings.Contains, the         *)
(* extraction regexp, fmt's padding and filepath.Base are computed, not    *)
(* assumed.  An error value is the chain of its messages, outermost first: *)
(* <<>> is nil, and Error() is the chain joined with ": ".                 *)
(***************************************************************************)
EXTENDS Integers, Sequences, FiniteSets, TLC

VARIABLES
    pc,             \* position of the run: which call of main/Main is next
    app,            \* os.Args[0]
    log,            \* what was handed to logrus, in order: [level, msg]
    err,            \* the error Main holds (nil = <<>>)
    runErr,         \* what cmd.Run returned in Compile
    stderrContent,  \* stderr.String() in Compile
    stderrLines,    \* Compile's stderrLines
    cfs,            \* the ConversionFailures Compile returned
    stages,         \* the stages entered so far, in order
    returns,        \* what each stage that returned gave Main: [stage, err]
    launches,       \* calls of cmd.Run so far
    spawned,        \* external compiler processes those calls started
    panicValue,     \* the value of the panic under way ("" when there is none)
    exitCode,       \* the exit status of the process (-1 while it runs)
    now,            \* what time.Now().Format(time.RFC3339) gives in Generate
    template,       \* the file at TemplateFile, as template.ParseFiles parses it
    written         \* the content of the file at OutputFile

vars == <<pc, app, log, err, runErr, stderrContent, stderrLines, cfs, stages, returns,
          launches, spawned, panicValue, exitCode, now, template, written>>

---------------------------------------------------------------------------
(* Bounds of the model *)

\* the longest diagnostic stream, in lines
MaxLines == 2

---------------------------------------------------------------------------
(* Program constants *)

TemplateFile == "./template/conversions.tmpl"
OutputFile == "./output/conversions.go"

Primitives ==
    << "bool", "uint8", "uint16", "uint32", "uint64", "int8", "int16", "int32",
       "int64", "float32", "float64", "complex64", "complex128", "string",
       "int", "uint", "uintptr", "byte", "rune" >>

\* The two glyphs of Report, U+2705 and U+274C; the module's strings are
\* ASCII, so each glyph is written as a bracketed name of one.
CheckMark == "[U+2705]"
CrossMark == "[U+274C]"

Marker == "cannot convert"

Nil == << >>

---------------------------------------------------------------------------
(* Strings *)

Char(s, i) == SubSeq(s, i, i)

\* s[i..] starts with lit
HasAt(s, i, lit) == i >= 1 /\ i + Len(lit) - 1 <= Len(s) /\ SubSeq(s, i, i + Len(lit) - 1) = lit

Largest(S) == CHOOSE x \in S : \A y \in S : y <= x
Smallest(S) == CHOOSE x \in S : \A y \in S : x <= y

\* strings.Index, 1-based: the first place substr occurs at, 0 when it does not
StringsIndex(s, substr) ==
    LET hits == { i \in 1..(Len(s) - Len(substr) + 1) : HasAt(s, i, substr) }
    IN IF hits = {} THEN 0 ELSE Smallest(hits)

StringsContains(s, substr) == StringsIndex(s, substr) # 0

\* strings.Split cuts s at the first separator, then at the first one that
\* starts after that separator's end, and so on.  hits are the places a
\* separator of length n occurs at.  A hit that no earlier hit overlaps is
\* always cut at; RunCuts follows the cuts from such a hit through the hits
\* that overlap one another after it.
Overlapped(hits, h, n) == \E g \in hits : g < h /\ h < g + n

RECURSIVE RunCuts(_, _, _)
RunCuts(hits, h, n) ==
    LET later == { g \in hits : g >= h + n } IN
    IF later = {} \/ ~Overlapped(hits, Smallest(later), n) THEN { h }
    ELSE { h } \cup RunCuts(hits, Smallest(later), n)

SplitCuts(hits, n) ==
    UNION { RunCuts(hits, h, n) : h \in { g \in hits : ~Overlapped(hits, g, n) } }

\* strings.Split(s, sep) for a non-empty sep: always at least one piece, the
\* k-th piece lying between the (k-1)-th cut and the k-th
StringsSplit(s, sep) ==
    LET hits == { i \in 1..(Len(s) - Len(sep) + 1) : HasAt(s, i, sep) }
        ends == SplitCuts(hits, Len(sep)) \cup { Len(s) + 1 }
        rank == [ c \in ends |-> Cardinality({ x \in ends : x < c }) + 1 ]
        cutAt == [ k \in 1..Cardinality(ends) |-> CHOOSE c \in ends : rank[c] = k ]
    IN [ k \in 1..Cardinality(ends) |->
           SubSeq(s, IF k = 1 THEN 1 ELSE cutAt[k - 1] + Len(sep), cutAt[k] - 1) ]

RECURSIVE Spaces(_)
Spaces(n) == IF n <= 0 THEN "" ELSE " " \o Spaces(n - 1)

\* fmt's %10s and %-10s: pad to the width, never cut
PadLeft(s, w) == Spaces(w - Len(s)) \o s
PadRight(s, w) == s \o Spaces(w - Len(s))

\* fmt's %q of a string without characters to escape
Quote(s) == "\"" \o s \o "\""

RECURSIVE TrimTrailingSlashes(_)
TrimTrailingSlashes(p) ==
    IF Len(p) > 0 /\ Char(p, Len(p)) = "/" THEN TrimTrailingSlashes(SubSeq(p, 1, Len(p) - 1))
    ELSE p

RECURSIVE LastSlash(_, _)
LastSlash(p, i) == IF i = 0 THEN 0 ELSE IF Char(p, i) = "/" THEN i ELSE LastSlash(p, i - 1)

\* filepath.Base on a slash-separated path
Base(path) ==
    IF path = "" THEN "."
    ELSE LET p == TrimTrailingSlashes(path)
             q == SubSeq(p, LastSlash(p, Len(p)) + 1, Len(p))
         IN IF q = "" THEN "/" ELSE q

---------------------------------------------------------------------------
(* Errors (github.com/pkg/errors) *)

\* errors.Wrap: nil stays nil
Wrap(e, msg) == IF e = Nil THEN Nil ELSE << msg >> \o e

RECURSIVE ErrorText(_)
ErrorText(e) ==
    IF e = Nil THEN "<nil>"
    ELSE IF Len(e) = 1 THEN e[1]
    ELSE e[1] \o ": " \o ErrorText(Tail(e))

---------------------------------------------------------------------------
(* The extraction pattern of Compile:                                      *)
(*     .+ p.(.+) \(.+\) to type (.+)                                       *)
(* matched as regexp.FindStringSubmatch matches it: unanchored, the        *)
(* leftmost start, and among the matches from that start the one a         *)
(* backtracking matcher finds first, every .+ taking as much as it can     *)
(* before the next one is tried.  A dot matches any character but "\n".    *)
(*                                                                         *)
(* A match is fixed by five positions of s:                                *)
(*   st..a     the leading .+                                              *)
(*   a+1..a+2  " p",  a+3 the dot after p                                  *)
(*   a+4..b    group 1                                                     *)
(*   b+1..b+2  " (",  b+3..c the .+ in parentheses                         *)
(*   c+1..c+10 ") to type "                                                *)
(*   c+11..e   group 2                                                     *)

LitP == " p"
LitOpen == " ("
LitToType == ") to type "

Dot(s, i) == i >= 1 /\ i <= Len(s) /\ Char(s, i) # "\n"

\* every character of s[i..j] is matched by a dot
Dots(s, i, j) == \A k \in i..j : Dot(s, k)

\* ends of group 2 when ") to type " starts right after c
ReEnds(s, c) ==
    IF HasAt(s, c + 1, LitToType)
    THEN { e \in (c + 1 + Len(LitToType))..Len(s) : Dots(s, c + 1 + Len(LitToType), e) }
    ELSE {}

\* ends of the parenthesised .+ when " (" starts right after b
ReCloses(s, b) ==
    IF HasAt(s, b + 1, LitOpen)
    THEN { c \in (b + 1 + Len(LitOpen))..Len(s) :
             ReEnds(s, c) # {} /\ Dots(s, b + 1 + Len(LitOpen), c) }
    ELSE {}

\* ends of group 1 when " p" and one more character start right after a
ReGroup1Ends(s, a) ==
    IF HasAt(s, a + 1, LitP) /\ Dot(s, a + 1 + Len(LitP))
    THEN { b \in (a + 2 + Len(LitP))..Len(s) :
             ReCloses(s, b) # {} /\ Dots(s, a + 2 + Len(LitP), b) }
    ELSE {}

\* ends of the leading .+ from which the rest of the pattern matches
ReHeads(s) == { a \in 1..Len(s) : ReGroup1Ends(s, a) # {} }

\* the leftmost position from which dots reach position a (a + 1 when the
\* character at a is itself no dot)
DotsFrom(s, a) == Largest({ 0 } \cup { k \in 1..a : ~Dot(s, k) }) + 1

\* nil (<< >>) or << whole match, group 1, group 2 >>
FindStringSubmatch(s) ==
    LET heads == { a \in ReHeads(s) : Dot(s, a) } IN
    IF heads = {} THEN << >>
    ELSE LET st == Smallest({ DotsFrom(s, a) : a \in heads })
             a  == Largest({ x \in heads : DotsFrom(s, x) = st })
             b  == Largest(ReGroup1Ends(s, a))
             c  == Largest(ReCloses(s, b))
             e  == Largest(ReEnds(s, c))
         IN << SubSeq(s, st, e),
               SubSeq(s, a + 2 + Len(LitP), b),
               SubSeq(s, c + 1 + Len(LitToType), e) >>

---------------------------------------------------------------------------
(* Compile, after the command has run *)

\* mutant of UnexpectedRunError: the exception for status 2 is missing
UnexpectedRunErrorAnyError(e) == e # Nil

\* mutant of UnexpectedRunError: only status 1 counts as a failure
UnexpectedRunErrorOnlyStatus1(e) == e = << "exit status 1" >>

\* the guard of Compile's early return
UnexpectedRunError(e) == e # Nil /\ ErrorText(e) # "exit status 2"

\* mutant of ConversionErrs: the first loop keeps the lines the pattern matches
ConversionErrsByPattern(lines) == SelectSeq(lines, LAMBDA l : FindStringSubmatch(l) # << >>)

\* mutant of ConversionErrs: the first loop keeps every line
ConversionErrsUnfiltered(lines) == lines

\* the first loop: the lines that contain the marker, in order
ConversionErrs(lines) == SelectSeq(lines, LAMBDA l : StringsContains(l, Marker))

\* mutant of Submatches: a line without a match is skipped
SubmatchesSkippingNil(conversionErrs) ==
    SelectSeq([ i \in 1..Len(conversionErrs) |-> FindStringSubmatch(conversionErrs[i]) ],
              LAMBDA m : m # << >>)

\* the second loop's matches, one per line, in order
Submatches(conversionErrs) ==
    [ i \in 1..Len(conversionErrs) |-> FindStringSubmatch(conversionErrs[i]) ]

\* indexing matches[1] of a nil slice panics: the second loop does so at
\* the first line without a match
ExtractionPanics(submatches) ==
    \E i \in 1..Len(submatches) : submatches[i] = << >>

\* mutant of ConversionFailureOf: From keeps the "p." of the operand
ConversionFailureOfOperand(matches) == [From |-> "p." \o matches[2], To |-> matches[3]]

\* the entry the second loop appends for one line (matches is not nil)
ConversionFailureOf(matches) == [From |-> matches[2], To |-> matches[3]]

\* mutant of ExtractFailures: the second loop stops before the last line
ExtractFailuresDroppingLast(submatches) ==
    [ i \in 1..(Len(submatches) - 1) |-> ConversionFailureOf(submatches[i]) ]

\* mutant of ExtractFailures: the second loop starts at the second line
ExtractFailuresSkippingFirst(submatches) ==
    [ i \in 1..(Len(submatches) - 1) |-> ConversionFailureOf(submatches[i + 1]) ]

\* mutant of ExtractFailures: each entry replaces the one before it
ExtractFailuresOverwriting(submatches) ==
    IF Len(submatches) = 0 THEN << >>
    ELSE << ConversionFailureOf(submatches[Len(submatches)]) >>

\* the second loop: one entry per line, in order
ExtractFailures(submatches) ==
    [ i \in 1..Len(submatches) |-> ConversionFailureOf(submatches[i]) ]

---------------------------------------------------------------------------
(* Report *)

\* mutant of Contains: the names are compared as prefixes
ContainsByPrefix(failures, from, to) ==
    \E i \in 1..Len(failures) :
        HasAt(failures[i].From, 1, from) /\ HasAt(failures[i].To, 1, to)

\* mutant of Contains: an entry also stands for its reverse
ContainsEitherDirection(failures, from, to) ==
    \E i \in 1..Len(failures) :
        \/ failures[i].From = from /\ failures[i].To = to
        \/ failures[i].From = to /\ failures[i].To = from

\* mutant of Contains: an entry is looked up the other way round
ContainsSwapped(failures, from, to) ==
    \E i \in 1..Len(failures) : failures[i].From = to /\ failures[i].To = from

\* mutant of Contains: an entry matches on its From alone
ContainsFromOnly(failures, from, to) ==
    \E i \in 1..Len(failures) : failures[i].From = from

\* ConversionFailures.Contains
Contains(failures, from, to) ==
    \E i \in 1..Len(failures) : failures[i].From = from /\ failures[i].To = to

\* mutant of Compatible: the two glyphs the wrong way round
CompatibleInverted(failures, outerPrimitive, innerPrimitive) ==
    IF Contains(failures, outerPrimitive, innerPrimitive) THEN CheckMark ELSE CrossMark

Compatible(failures, outerPrimitive, innerPrimitive) ==
    IF ~Contains(failures, outerPrimitive, innerPrimitive) THEN CheckMark ELSE CrossMark

\* the two format strings of Report, as fmt.Sprintf fills them
HeaderLine(outerPrimitive) ==
    "---------- converting " \o outerPrimitive \o " values ----------\n"

ResultLine(outerPrimitive, innerPrimitive, compatible) ==
    PadLeft(outerPrimitive, 10) \o " -> " \o PadRight(innerPrimitive, 10) \o " " \o compatible \o " "

Info(msg) == [level |-> "info", msg |-> msg]
Fatal(msg) == [level |-> "fatal", msg |-> msg]

\* mutant of InnerLoop: the loop skips the pair of a type with itself
InnerLoopSkippingSelf(failures, outerPrimitive) ==
    LET others == SelectSeq(Primitives, LAMBDA t : t # outerPrimitive)
    IN [ j \in 1..Len(others) |->
           Info(ResultLine(outerPrimitive, others[j],
                           Compatible(failures, outerPrimitive, others[j]))) ]

\* the inner loop: one line per innerPrimitive, in the order of Primitives
InnerLoop(failures, outerPrimitive) ==
    [ j \in 1..Len(Primitives) |->
        Info(ResultLine(outerPrimitive, Primitives[j],
                        Compatible(failures, outerPrimitive, Primitives[j]))) ]

\* the outer loop from index i on
RECURSIVE OuterLoop(_, _)
OuterLoop(failures, i) ==
    IF i > Len(Primitives) THEN << >>
    ELSE << Info(HeaderLine(Primitives[i])) >>
         \o InnerLoop(failures, Primitives[i])
         \o OuterLoop(failures, i + 1)

\* everything Report logs
ReportLines(failures) == OuterLoop(failures, 1)

---------------------------------------------------------------------------
(* What the environment hands to one run *)

\* os.Args[0]
Apps == { "./go-conversions", "/tmp/go-build/b001/exe/main" }

\* time.Since(start), as %v prints it
Durations == { "412.5ms", "1.73s" }

\* what can go wrong in Generate before the template is executed, each as
\* Generate wraps it: template.ParseFiles failing, os.Create failing
ParseFilesError ==
    Wrap(<< "open " \o TemplateFile \o ": no such file or directory" >>,
         "parsing template file " \o Quote(TemplateFile))
CreateError ==
    Wrap(<< "open " \o OutputFile \o ": no such file or directory" >>,
         "creating output file " \o Quote(OutputFile))
GenerateErrors == { ParseFilesError, CreateError }

\* time.Now().Format(time.RFC3339)
Nows == { "2022-12-08T09:15:02-05:00", "2022-12-08T09:15:03-05:00", "2023-01-01T00:00:00Z" }

\* cmd.Run: nil (exit status 0), an *exec.ExitError, or the launch failing
LaunchFailure == << "exec: \"go\": executable file not found in $PATH" >>
ExitError(n) == << "exit status " \o ToString(n) >>
ExitStatuses == { 1, 2, 3 }
RunErrs == { Nil, LaunchFailure } \cup { ExitError(n) : n \in ExitStatuses }

\* the compiler's diagnostic for an invalid conversion of the field p.<from>
\* to the type <to>: "<file>:<line>:<col>: cannot convert p.<from> (<what the
\* operand is>) to type <to>"
Diagnostic(location, from, operand, to) ==
    location \o ": cannot convert p." \o from \o " (" \o operand \o ") to type " \o to

\* diagnostics of that shape naming catalog types: << the line, from, to >>
ExpectedDiagnostics ==
    { << Diagnostic("output/conversions.go:30:13", "bool", "variable of type bool", "uint8"),
         "bool", "uint8" >>,
      << Diagnostic("output/conversions.go:49:13", "uint8", "variable of type uint8", "bool"),
         "uint8", "bool" >>,
      << Diagnostic("output/conversions.go:284:14", "string", "variable of type string", "rune"),
         "string", "rune" >>,
      << Diagnostic("output/conversions.go:298:13", "int", "type int", "bool"),
         "int", "bool" >> }

\* lines a diagnostic stream is made of: a blank line, the package header,
\* an error that is no conversion error, the diagnostics above, a conversion
\* error without the parenthesised operand, and one ending in a carriage return
LineSamples ==
    { "",
      "# command-line-arguments",
      "output/conversions.go:7:2: invalid operation p.bool (variable of type bool) to type int8",
      "output/conversions.go:30:13: cannot convert p.bool to type uint8",
      Diagnostic("output/conversions.go:30:13", "bool", "variable of type bool", "uint8\r") }
    \cup { d[1] : d \in ExpectedDiagnostics }

\* the elements with sep between them, joined half by half
RECURSIVE StringsJoin(_, _)
StringsJoin(elems, sep) ==
    IF Len(elems) = 0 THEN ""
    ELSE IF Len(elems) = 1 THEN elems[1]
    ELSE LET half == Len(elems) \div 2 IN
         StringsJoin(SubSeq(elems, 1, half), sep) \o sep
           \o StringsJoin(SubSeq(elems, half + 1, Len(elems)), sep)

\* The README's Results: what this program reported on 12/8/2022, one row per
\* "converting <from> values" block in catalog order, one column per
\* destination in catalog order; 1 for the convertible glyph, 0 for the other
Results ==
    <<
      << 1, 0, 0, 0, 0, 0, 0, 0, 0, 0, 0, 0, 0, 0, 0, 0, 0, 0, 0 >>,  \* bool
      << 0, 1, 1, 1, 1, 1, 1, 1, 1, 1, 1, 0, 0, 1, 1, 1, 1, 1, 1 >>,  \* uint8
      << 0, 1, 1, 1, 1, 1, 1, 1, 1, 1, 1, 0, 0, 1, 1, 1, 1, 1, 1 >>,  \* uint16
      << 0, 1, 1, 1, 1, 1, 1, 1, 1, 1, 1, 0, 0, 1, 1, 1, 1, 1, 1 >>,  \* uint32
      << 0, 1, 1, 1, 1, 1, 1, 1, 1, 1, 1, 0, 0, 1, 1, 1, 1, 1, 1 >>,  \* uint64
      << 0, 1, 1, 1, 1, 1, 1, 1, 1, 1, 1, 0, 0, 1, 1, 1, 1, 1, 1 >>,  \* int8
      << 0, 1, 1, 1, 1, 1, 1, 1, 1, 1, 1, 0, 0, 1, 1, 1, 1, 1, 1 >>,  \* int16
      << 0, 1, 1, 1, 1, 1, 1, 1, 1, 1, 1, 0, 0, 1, 1, 1, 1, 1, 1 >>,  \* int32
      << 0, 1, 1, 1, 1, 1, 1, 1, 1, 1, 1, 0, 0, 1, 1, 1, 1, 1, 1 >>,  \* int64
      << 0, 1, 1, 1, 1, 1, 1, 1, 1, 1, 1, 0, 0, 0, 1, 1, 1, 1, 1 >>,  \* float32
      << 0, 1, 1, 1, 1, 1, 1, 1, 1, 1, 1, 0, 0, 0, 1, 1, 1, 1, 1 >>,  \* float64
      << 0, 0, 0, 0, 0, 0, 0, 0, 0, 0, 0, 1, 1, 0, 0, 0, 0, 0, 0 >>,  \* complex64
      << 0, 0, 0, 0, 0, 0, 0, 0, 0, 0, 0, 1, 1, 0, 0, 0, 0, 0, 0 >>,  \* complex128
      << 0, 0, 0, 0, 0, 0, 0, 0, 0, 0, 0, 0, 0, 1, 0, 0, 0, 0, 0 >>,  \* string
      << 0, 1, 1, 1, 1, 1, 1, 1, 1, 1, 1, 0, 0, 1, 1, 1, 1, 1, 1 >>,  \* int
      << 0, 1, 1, 1, 1, 1, 1, 1, 1, 1, 1, 0, 0, 1, 1, 1, 1, 1, 1 >>,  \* uint
      << 0, 1, 1, 1, 1, 1, 1, 1, 1, 1, 1, 0, 0, 1, 1, 1, 1, 1, 1 >>,  \* uintptr
      << 0, 1, 1, 1, 1, 1, 1, 1, 1, 1, 1, 0, 0, 1, 1, 1, 1, 1, 1 >>,  \* byte
      << 0, 1, 1, 1, 1, 1, 1, 1, 1, 1, 1, 0, 0, 1, 1, 1, 1, 1, 1 >>   \* rune
    >>

\* the verdict the Go compiler gave on Primitives[i] -> Primitives[j]
CompilerRejects(i, j) == Results[i][j] = 0

\* the self-product of the catalog in the order the generated file converts
\* it: << i, j >> for Primitives[i] -> Primitives[j]
Conversions ==
    [ k \in 1..(Len(Primitives) * Len(Primitives)) |->
        << ((k - 1) \div Len(Primitives)) + 1, ((k - 1) % Len(Primitives)) + 1 >> ]

\* the diagnostics of the build of the generated file, all of them (-gcflags=-e),
\* one per rejected conversion in the order of the file; the position a
\* diagnostic names depends on the template and is read by the pattern as ".+"
CompilerDiagnostics ==
    LET rejected == SelectSeq(Conversions, LAMBDA c : CompilerRejects(c[1], c[2])) IN
    [ n \in 1..Len(rejected) |->
        Diagnostic("output/conversions.go:" \o ToString(n) \o ":13",
                   Primitives[rejected[n][1]],
                   "variable of type " \o Primitives[rejected[n][1]],
                   Primitives[rejected[n][2]]) ]

\* what that build writes to stderr: the package header, the diagnostics,
\* every line ended by a newline
CompilerStream ==
    StringsJoin(<< "# command-line-arguments" >> \o CompilerDiagnostics \o << "" >>, "\n")

\* the streams of at most MaxLines lines, and the stream of the real build
Contents ==
    { StringsJoin(q, "\n") : q \in UNION { [1..n -> LineSamples] : n \in 1..MaxLines } }
      \cup { CompilerStream }

---------------------------------------------------------------------------
(* Generate: the template, and what executing it writes.                   *)
(* A parsed template is the sequence of its nodes: text that is copied, a  *)
(* field of the data that is printed ({{.Name}}), and the two blocks that  *)
(* range over the catalog.  The file template/conversions.tmpl is read at  *)
(* run time; the templates below are files Generate may find there.        *)

TextNode(text) == [kind |-> "text", text |-> text]
FieldNode(name, pos) == [kind |-> "field", name |-> name, pos |-> pos]
FieldsNode == [kind |-> "fields"]
ConversionsNode == [kind |-> "conversions"]

\* the Data value Generate builds
Data(n, a) == [Now |-> n, App |-> a, Primitives |-> Primitives]

\* one field of the struct p per primitive, named after its type
FieldDeclaration(primitive) == "\t" \o primitive \o " " \o primitive \o "\n"

\* one statement per ordered pair: the conversion, its result discarded
ConversionStatement(from, to) == "\t_ = " \o to \o "(p." \o from \o ")\n"

\* text/template's error for a field the data does not have
FieldError(name, pos) ==
    << "template: conversions.tmpl:" \o pos \o ": executing \"conversions.tmpl\" at <."
         \o name \o ">: can't evaluate field " \o name \o " in type main.Data" >>

\* what executing one node writes, and the error it ends with; a field is
\* printed as fmt prints it: a string as it is, the slice of strings as
\* "[a b c]"
ExecuteNode(node, data) ==
    CASE node.kind = "text" -> [out |-> node.text, err |-> Nil]
      [] node.kind = "field" ->
           IF node.name = "Now" THEN [out |-> data.Now, err |-> Nil]
           ELSE IF node.name = "App" THEN [out |-> data.App, err |-> Nil]
           ELSE IF node.name = "Primitives"
                THEN [out |-> "[" \o StringsJoin(data.Primitives, " ") \o "]", err |-> Nil]
           ELSE [out |-> "", err |-> FieldError(node.name, node.pos)]
      [] node.kind = "fields" ->
           [out |-> StringsJoin([ i \in 1..Len(data.Primitives) |->
                                    FieldDeclaration(data.Primitives[i]) ], ""),
            err |-> Nil]
      [] node.kind = "conversions" ->
           [out |-> StringsJoin([ k \in 1..Len(Conversions) |->
                                    ConversionStatement(data.Primitives[Conversions[k][1]],
                                                        data.Primitives[Conversions[k][2]]) ], ""),
            err |-> Nil]

\* t.Execute(f, data): the nodes in order, each writing to f, up to the
\* first one that fails
Execute(t, data) ==
    LET results == [ i \in 1..Len(t) |-> ExecuteNode(t[i], data) ]
        failing == { i \in 1..Len(t) : results[i].err # Nil }
        done == IF failing = {} THEN Len(t) ELSE Smallest(failing) - 1
    IN [out |-> StringsJoin([ i \in 1..done |-> results[i].out ], ""),
        err |-> IF failing = {} THEN Nil ELSE results[Smallest(failing)].err]

\* the program the template is there to produce: the struct p, and main
\* converting each of its fields to each type
TemplateBody ==
    << TextNode("package main\n\nvar p struct {\n"), FieldsNode,
       TextNode("}\n\nfunc main() {\n"), ConversionsNode, TextNode("}\n") >>

\* that program alone
TemplatePlain == TemplateBody

\* the program under a header that uses the other two fields of Data
TemplateStamped ==
    << TextNode("// Code generated by "), FieldNode("App", "1:24"), TextNode(" at "),
       FieldNode("Now", "1:36"), TextNode("; DO NOT EDIT.\n\n") >> \o TemplateBody

\* the program under a header that uses Now alone
TemplateDated ==
    << TextNode("// Generated at "), FieldNode("Now", "1:19"), TextNode(".\n\n") >>
      \o TemplateBody

\* the program under a header that prints the catalog itself
TemplateListed ==
    << TextNode("// Conversions among "), FieldNode("Primitives", "1:24"), TextNode("\n\n") >>
      \o TemplateBody

\* a template that names a field Data does not have
TemplateMissingField ==
    << TextNode("// "), FieldNode("Missing", "1:6"), TextNode("\n") >> \o TemplateBody

Templates ==
    { TemplatePlain, TemplateListed, TemplateStamped, TemplateDated, TemplateMissingField }

---------------------------------------------------------------------------
(* The run *)

\* a run about to start, whatever its inputs
Started ==
    /\ pc = "main"
    /\ log = << >>
    /\ err = Nil
    /\ runErr = Nil
    /\ stderrContent = ""
    /\ stderrLines = << >>
    /\ cfs = << >>
    /\ stages = << >>
    /\ returns = << >>
    /\ launches = 0
    /\ spawned = 0
    /\ panicValue = ""
    /\ exitCode = -1
    /\ written = ""

\* the whole run is followed for one reading of the clock and for the
\* template with the header and the one that fails
RunNows == { "2022-12-08T09:15:02-05:00" }
RunTemplates == { TemplateStamped, TemplateMissingField }

Init ==
    /\ Started
    /\ app \in Apps
    /\ now \in RunNows
    /\ template \in RunTemplates

\* main up to its call of Main: the two defers are registered, "starting" is logged
mainEnter ==
    /\ pc = "main"
    /\ log' = Append(log, Info("starting"))
    /\ pc' = "Generate"
    /\ UNCHANGED <<app, now, template, written, err, runErr, stderrContent, stderrLines,
                   cfs, stages, returns, launches, spawned, panicValue, exitCode>>

\* mutant of Generate: Main goes on to Compile whatever Generate returned
GenerateUnchecked ==
    /\ pc = "Generate"
    /\ stages' = Append(stages, "Generate")
    /\ \E e \in GenerateErrors \cup { Nil } :
         LET executed == Execute(template, Data(now, app))
             returned == IF e # Nil THEN e ELSE Wrap(executed.err, "executing template")
         IN /\ written' = IF e # Nil THEN written ELSE executed.out
            /\ returns' = Append(returns, [stage |-> "Generate", err |-> returned])
            /\ err' = Wrap(returned, "generating")
            /\ pc' = "Compile"
    /\ UNCHANGED <<app, now, template, log, runErr, stderrContent, stderrLines, cfs,
                   launches, spawned, panicValue, exitCode>>

\* Main calls Generate: the template is parsed and the output file created
\* (either may fail, the output file then being left as it was), and the
\* template is executed into the file with Data{Now, App, Primitives}
Generate ==
    /\ pc = "Generate"
    /\ stages' = Append(stages, "Generate")
    /\ \E e \in GenerateErrors \cup { Nil } :
         LET executed == Execute(template, Data(now, app))
             returned == IF e # Nil THEN e ELSE Wrap(executed.err, "executing template")
         IN /\ written' = IF e # Nil THEN written ELSE executed.out
            /\ returns' = Append(returns, [stage |-> "Generate", err |-> returned])
            /\ IF returned # Nil
               THEN /\ err' = Wrap(returned, "generating")
                    /\ pc' = "MainReturned"
               ELSE /\ err' = Nil
                    /\ pc' = "Compile"
    /\ UNCHANGED <<app, now, template, log, runErr, stderrContent, stderrLines, cfs,
                   launches, spawned, panicValue, exitCode>>

\* Main calls Compile
Compile ==
    /\ pc = "Compile"
    /\ stages' = Append(stages, "Compile")
    /\ launches' = launches + 1
    /\ \E r \in RunErrs, content \in Contents :
         /\ r = LaunchFailure => content = ""
         /\ spawned' = IF r = LaunchFailure THEN spawned ELSE spawned + 1
         /\ runErr' = r
         /\ stderrContent' = content
         /\ IF UnexpectedRunError(r)
            THEN /\ returns' = Append(returns,
                         [stage |-> "Compile",
                          err |-> Wrap(r, "unexpected error while running compilation command")])
                 /\ err' = Wrap(Wrap(r, "unexpected error while running compilation command"),
                                "compiling")
                 /\ pc' = "MainReturned"
                 /\ UNCHANGED <<stderrLines, cfs, panicValue>>
            ELSE LET submatches == Submatches(ConversionErrs(StringsSplit(content, "\n"))) IN
                 /\ stderrLines' = StringsSplit(content, "\n")
                 /\ IF ExtractionPanics(submatches)
                    THEN /\ panicValue' = "runtime error: index out of range [1] with length 0"
                         /\ pc' = "Panicking"
                         /\ UNCHANGED <<cfs, err, returns>>
                    ELSE /\ cfs' = ExtractFailures(submatches)
                         /\ returns' = Append(returns, [stage |-> "Compile", err |-> Nil])
                         /\ err' = Nil
                         /\ pc' = "Report"
                         /\ UNCHANGED panicValue
    /\ UNCHANGED <<app, now, template, written, log, exitCode>>

\* Main calls Report and returns nil
Report ==
    /\ pc = "Report"
    /\ stages' = Append(stages, "Report")
    /\ log' = log \o ReportLines(cfs)
    /\ returns' = Append(returns, [stage |-> "Report", err |-> Nil])
    /\ err' = Nil
    /\ pc' = "MainReturned"
    /\ UNCHANGED <<app, now, template, written, runErr, stderrContent, stderrLines, cfs,
                   launches, spawned, panicValue, exitCode>>

\* main, Main having returned an error: logrus.Fatal logs it and calls
\* os.Exit(1), which runs no deferred call
mainFatal ==
    /\ pc = "MainReturned"
    /\ err # Nil
    /\ log' = Append(log, Fatal(ErrorText(Wrap(err, Base(app)))))
    /\ exitCode' = 1
    /\ pc' = "Exited"
    /\ UNCHANGED <<app, now, template, written, err, runErr, stderrContent, stderrLines,
                   cfs, stages, returns, launches, spawned, panicValue>>

\* main, Main having returned nil: "done", then the deferred calls
mainDone ==
    /\ pc = "MainReturned"
    /\ err = Nil
    /\ \E d \in Durations :
         log' = log \o << Info("done"), Info("execution took " \o d) >>
    /\ exitCode' = 0
    /\ pc' = "Exited"
    /\ UNCHANGED <<app, now, template, written, err, runErr, stderrContent, stderrLines,
                   cfs, stages, returns, launches, spawned, panicValue>>

\* a panic in Compile unwinds through Main and main: main's deferred calls
\* run, nothing recovers, and the runtime ends the process with status 2
mainPanic ==
    /\ pc = "Panicking"
    /\ \E d \in Durations :
         log' = Append(log, Info("execution took " \o d))
    /\ exitCode' = 2
    /\ pc' = "Exited"
    /\ UNCHANGED <<app, now, template, written, err, runErr, stderrContent, stderrLines,
                   cfs, stages, returns, launches, spawned, panicValue>>

Next ==
    \/ mainEnter
    \/ Generate
    \/ Compile
    \/ Report
    \/ mainFatal
    \/ mainDone
    \/ mainPanic

Spec == Init /\ [][Next]_vars

\* Generate alone, over every reading of the clock and every template: the
\* run up to Generate's return
InitGenerate ==
    /\ Started
    /\ app \in Apps
    /\ now \in Nows
    /\ template \in Templates

NextGenerate ==
    \/ mainEnter
    \/ Generate

SpecGenerate == InitGenerate /\ [][NextGenerate]_vars

---------------------------------------------------------------------------
(* Reading the log back: which entries are Report's, and what they say *)

NumPrimitives == Len(Primitives)
TypeNames == { Primitives[i] : i \in 1..NumPrimitives }

\* a result line up to its glyph: the two names in their columns
PairPrefix(from, to) == PadLeft(from, 10) \o " -> " \o PadRight(to, 10) \o " "
PrefixLen == Len(PairPrefix("bool", "bool"))
PairPrefixes == { PairPrefix(from, to) : from \in TypeNames, to \in TypeNames }
PairOfPrefix ==
    [ x \in PairPrefixes |->
        CHOOSE pr \in TypeNames \X TypeNames : PairPrefix(pr[1], pr[2]) = x ]

IsResult(entry) ==
    /\ entry.level = "info"
    /\ Len(entry.msg) >= PrefixLen
    /\ SubSeq(entry.msg, 1, PrefixLen) \in PairPrefixes
IsHeader(entry) == entry.level = "info" /\ HasAt(entry.msg, 1, "---------- converting ")

\* << from, to >> of a result line, and what follows the two names
PairOf(entry) == PairOfPrefix[SubSeq(entry.msg, 1, PrefixLen)]
GlyphOf(entry) == SubSeq(entry.msg, PrefixLen + 1, Len(entry.msg))
Convertible == CheckMark \o " "
NotConvertible == CrossMark \o " "

\* Report has run
Reported == \E i \in 1..Len(stages) : stages[i] = "Report"

\* the entries Report logged, in order
ReportPart == SelectSeq(log, LAMBDA entry : IsResult(entry) \/ IsHeader(entry))

\* the pairs the report marks not-convertible
MarkedNotConvertible ==
    { PairOf(log[k]) : k \in { x \in 1..Len(log) : IsResult(log[x]) /\ GlyphOf(log[x]) = NotConvertible } }

\* a line carries the marker
HasMarker(line) ==
    \E i \in 1..(Len(line) - Len(Marker) + 1) : SubSeq(line, i, i + Len(Marker) - 1) = Marker

\* the lines of the stream that carry the marker, in order
MarkerLines == SelectSeq(stderrLines, HasMarker)

\* Compile got past the command and split the stream
CompileProceeded == Len(stderrLines) > 0

\* Compile returned a Failure Set
CompileReturnedFailures ==
    \E i \in 1..Len(returns) : returns[i] = [stage |-> "Compile", err |-> Nil]

\* the lines of the expected shape, and the pair each names
ExpectedLines == { d[1] : d \in ExpectedDiagnostics }
ExpectedPair(line) == LET d == CHOOSE x \in ExpectedDiagnostics : x[1] = line IN << d[2], d[3] >>

\* the Failure Set has an entry with exactly this From and this To
InFailureSet(from, to) == \E i \in 1..Len(cfs) : cfs[i] = [From |-> from, To |-> to]

---------------------------------------------------------------------------
(* Claims *)

\* C1: once Report has run, every result line of the log carries the
\* convertible glyph if and only if the Failure Set handed to Report holds no
\* entry with exactly the line's From and To, and the not-convertible glyph
\* otherwise; and every ordered pair of catalog names has such a line.
C1_MarkerIffAbsentFromFailureSet ==
    Reported =>
        /\ \A k \in 1..Len(log) :
             IsResult(log[k]) =>
                 GlyphOf(log[k]) =
                     IF ~InFailureSet(PairOf(log[k])[1], PairOf(log[k])[2])
                     THEN Convertible ELSE NotConvertible
        /\ { PairOf(log[k]) : k \in { x \in 1..Len(log) : IsResult(log[x]) } }
               = TypeNames \X TypeNames

\* C1 witness: a report with a Failure Set of two different entries, where
\* bool -> uint8 is marked not-convertible and bool -> uint16 convertible.
C1_Witness ==
    /\ Reported
    /\ Len(cfs) = 2 /\ cfs[1] # cfs[2]
    /\ \E k \in 1..Len(log) :
         log[k].msg = PairPrefix("bool", "uint8") \o NotConvertible
    /\ \E k \in 1..Len(log) :
         log[k].msg = PairPrefix("bool", "uint16") \o Convertible

\* C2: the report is the 19 x 19 self-product in catalog order: block i is
\* the header of the i-th type followed by the 19 result lines of that type
\* against every type in catalog order, so the report is 19 headers and 361
\* result lines, each ordered pair once, whatever the Failure Set is; and
\* these 380 entries are logged together, right after "starting".
C2_ReportWalksSelfProductInOrder ==
    Reported =>
        LET part == ReportPart
            blockLen == NumPrimitives + 1
        IN /\ NumPrimitives = 19
           /\ Len(part) = NumPrimitives * blockLen
           /\ part = SubSeq(log, 2, 1 + NumPrimitives * blockLen)
           /\ \A i \in 1..NumPrimitives :
                /\ IsHeader(part[(i - 1) * blockLen + 1])
                /\ part[(i - 1) * blockLen + 1].msg
                     = "---------- converting " \o Primitives[i] \o " values ----------\n"
                /\ \A j \in 1..NumPrimitives :
                     /\ IsResult(part[(i - 1) * blockLen + 1 + j])
                     /\ PairOf(part[(i - 1) * blockLen + 1 + j])
                          = << Primitives[i], Primitives[j] >>
           /\ Cardinality({ k \in 1..Len(part) : IsHeader(part[k]) }) = 19
           /\ Cardinality({ k \in 1..Len(part) : IsResult(part[k]) }) = 361

\* C2 witness: a finished run that reported a non-empty Failure Set.
C2_Witness ==
    /\ pc = "Exited"
    /\ Reported
    /\ cfs # << >>
    /\ Len(ReportPart) = 380

\* C3: when every "cannot convert" line of the stream has the expected
\* shape (k of them), extraction does not fail, the Failure Set Compile
\* returns has exactly k entries, the n-th being the pair of the n-th such
\* line (a line that occurs twice gives two entries), and the report marks
\* not-convertible exactly the pairs of those lines and no other pair.
C3_KLinesGiveKEntriesAndKMarks ==
    (CompileProceeded /\ \A n \in 1..Len(MarkerLines) : MarkerLines[n] \in ExpectedLines) =>
        /\ pc # "Panicking" /\ panicValue = ""
        /\ CompileReturnedFailures
        /\ Len(cfs) = Len(MarkerLines)
        /\ \A n \in 1..Len(MarkerLines) :
             << cfs[n].From, cfs[n].To >> = ExpectedPair(MarkerLines[n])
        /\ Reported =>
             MarkedNotConvertible = { ExpectedPair(MarkerLines[n]) : n \in 1..Len(MarkerLines) }

\* C3 witness: the same expected line twice gives two entries and one marked
\* pair; two different lines give two entries and two marked pairs.
C3_Witness ==
    /\ Reported
    /\ Len(MarkerLines) = 2
    /\ MarkerLines[1] \in ExpectedLines /\ MarkerLines[2] \in ExpectedLines
    /\ Len(cfs) = 2
    /\ cfs[1] = cfs[2]
    /\ MarkedNotConvertible = { << "bool", "uint8" >> }

\* C4: when no line of the stream carries the marker, whatever else the
\* stream holds, the Failure Set is empty and the report marks each of the
\* 361 pairs convertible.
C4_NoMarkerLineAllConvertible ==
    (CompileProceeded /\ Len(MarkerLines) = 0) =>
        /\ pc # "Panicking"
        /\ CompileReturnedFailures
        /\ cfs = << >>
        /\ Reported =>
             /\ MarkedNotConvertible = {}
             /\ Cardinality({ k \in 1..Len(log) :
                                IsResult(log[k]) /\ GlyphOf(log[k]) = Convertible }) = 361

\* C4 witness: a reported stream of two lines without the marker, one of
\* them a line the extraction pattern would match.
C4_Witness ==
    /\ Reported
    /\ Len(stderrLines) = 2
    /\ stderrLines[1] = "# command-line-arguments"
    /\ FindStringSubmatch(stderrLines[2]) # << >>
    /\ Len(MarkerLines) = 0
    /\ cfs = << >>

\* C5: when a line of the stream carries the marker and the extraction
\* pattern does not match it, the run aborts: Compile never returns (neither
\* a Failure Set nor an error), Report is never entered, no report line is
\* logged, and the process ends with a non-zero status.
C5_UnparseableMarkerLineAborts ==
    (CompileProceeded
        /\ LET lines == MarkerLines
           IN \E n \in 1..Len(lines) : FindStringSubmatch(lines[n]) = << >>) =>
        /\ pc \in { "Panicking", "Exited" }
        /\ panicValue # ""
        /\ cfs = << >>
        /\ \A i \in 1..Len(returns) : returns[i].stage # "Compile"
        /\ ~Reported
        /\ \A k \in 1..Len(log) : ~IsResult(log[k]) /\ ~IsHeader(log[k])
        /\ exitCode # 0
        /\ pc = "Exited" => exitCode = 2

\* C5 witness: a finished run whose stream holds an expected line and then a
\* marker line without the parenthesised operand.
C5_Witness ==
    /\ pc = "Exited"
    /\ Len(stderrLines) = 2
    /\ stderrLines[1] \in ExpectedLines
    /\ HasMarker(stderrLines[2])
    /\ FindStringSubmatch(stderrLines[2]) = << >>
    /\ exitCode = 2

\* Compile has called cmd.Run
Compiled == launches >= 1

\* cmd.Run's error for a non-zero exit status other than 2
OtherNonZeroStatus == { << "exit status " \o ToString(n) >> : n \in ExitStatuses \ { 2 } }

\* Compile returned an error, Main returned it wrapped, and nothing was reported
CompileFailedRun ==
    /\ ~CompileProceeded
    /\ \E i \in 1..Len(returns) : returns[i].stage = "Compile" /\ returns[i].err # Nil
    /\ err # Nil
    /\ pc \in { "MainReturned", "Exited" }
    /\ ~Reported
    /\ \A k \in 1..Len(log) : ~IsResult(log[k]) /\ ~IsHeader(log[k])
    /\ pc = "Exited" => exitCode = 1 /\ log[Len(log)].level = "fatal"

\* Compile went on to extraction and returned no error
CompileWentOn ==
    /\ CompileProceeded
    /\ \A i \in 1..Len(returns) : returns[i].stage = "Compile" => returns[i].err = Nil

\* C6: when the compiler exits with status 2, Compile goes on to extraction
\* and returns no error; when the launch fails or the compiler exits with
\* another non-zero status, Compile returns an error, the run aborts, and
\* Report is never entered.
C6_Status2ProceedsOtherFailuresAbort ==
    Compiled =>
        /\ runErr = << "exit status 2" >> => CompileWentOn
        /\ (runErr = LaunchFailure \/ runErr \in OtherNonZeroStatus) => CompileFailedRun

\* C6 witness: a run that ended because the compiler could not be launched.
C6_Witness ==
    /\ pc = "Exited"
    /\ runErr = LaunchFailure
    /\ stages = << "Generate", "Compile" >>
    /\ exitCode = 1

\* C7 as claimed: an exit with any status but 2, status 0 included, is fatal
\* and aborts the run before any report.
C7_AnyStatusButTwoAborts ==
    (Compiled /\ runErr # LaunchFailure /\ runErr # << "exit status 2" >>) => CompileFailedRun

\* C7 as amended: an exit with a non-zero status other than 2 is fatal and
\* aborts the run before any report; an exit with status 0 is not an error
\* to Compile, which goes on to extraction as it does for status 2.
C7_NonZeroStatusButTwoAborts ==
    Compiled =>
        /\ runErr \in OtherNonZeroStatus => CompileFailedRun
        /\ runErr = Nil => CompileWentOn

\* C7 witness: a run that ended on exit status 3 although the stream held a
\* diagnostic of the expected shape.
C7_Witness ==
    /\ pc = "Exited"
    /\ runErr = << "exit status 3" >>
    /\ stderrContent \in ExpectedLines
    /\ exitCode = 1

\* something fatal happened in a stage
FatalCondition == panicValue # "" \/ \E i \in 1..Len(returns) : returns[i].err # Nil

\* C8: a run that met a fatal condition ends with a non-zero status and with
\* an error value at the top of the run that is wrapped with the name of
\* the stage it came from and logged; a run that met none ends with status 0.
C8_EveryFatalConditionIsWrappedError ==
    pc = "Exited" =>
        IF FatalCondition
        THEN /\ exitCode # 0
             /\ err # Nil
             /\ err[1] \in { "generating", "compiling", "reporting results" }
             /\ log[Len(log)] = Fatal(Base(app) \o ": " \o ErrorText(err))
        ELSE exitCode = 0

\* the stages are entered in order, none twice, each after the one before
\* it returned without error
StagesInOrder ==
    /\ stages = SubSeq(<< "Generate", "Compile", "Report" >>, 1, Len(stages))
    /\ Len(returns) <= Len(stages)
    /\ \A i \in 1..Len(returns) : returns[i].stage = stages[i]
    /\ \A i \in 2..Len(stages) : i - 1 <= Len(returns) /\ returns[i - 1].err = Nil

GenerateSucceeded ==
    Len(returns) >= 1 /\ returns[1] = [stage |-> "Generate", err |-> Nil]

\* C9 as claimed: the stages run in order without retry, and the compiler
\* process is spawned at most once, and exactly once in every run whose
\* Generate stage succeeded.
C9_StagesInOrderOneProcess ==
    /\ StagesInOrder
    /\ spawned <= 1
    /\ (pc = "Exited" /\ GenerateSucceeded) => spawned = 1

\* C9 as amended: the stages run in order without retry; cmd.Run is called
\* at most once, and exactly once in every run whose Generate stage
\* succeeded; the call spawns one process, or none when the launch fails.
C9_StagesInOrderOneLaunch ==
    /\ StagesInOrder
    /\ launches <= 1
    /\ spawned = IF Compiled /\ runErr # LaunchFailure THEN 1 ELSE 0
    /\ (pc = "Exited" /\ GenerateSucceeded) => launches = 1
    /\ ~GenerateSucceeded => launches = 0

\* C9 witness: a finished run whose one call of cmd.Run could not launch
\* the compiler.
C9_Witness ==
    /\ pc = "Exited"
    /\ GenerateSucceeded
    /\ launches = 1
    /\ spawned = 0

\* the names Contains is asked about: the catalog, and whatever the entries hold
QueryNames ==
    TypeNames \cup { cfs[i].From : i \in 1..Len(cfs) } \cup { cfs[i].To : i \in 1..Len(cfs) }

\* C10: Contains(from, to) is true exactly when some entry of the Failure
\* Set is the pair (from, to), both names equal as whole strings: an entry
\* that agrees in one name only, or with the names swapped, or of which from
\* or to is only a part, does not make it true.
C10_ContainsIsExactPairEquality ==
    \A from \in QueryNames, to \in QueryNames :
        Contains(cfs, from, to) <=> InFailureSet(from, to)

\* C10 witness: the Failure Set is the one pair uint8 -> bool, and Contains
\* is false for bool -> uint8, uint8 -> uint8, bool -> bool, uint -> bool and
\* uint16 -> bool.
C10_Witness ==
    /\ Reported
    /\ cfs = << [From |-> "uint8", To |-> "bool"] >>
    /\ Contains(cfs, "uint8", "bool")
    /\ ~Contains(cfs, "bool", "uint8")
    /\ ~Contains(cfs, "uint8", "uint8")
    /\ ~Contains(cfs, "bool", "bool")
    /\ ~Contains(cfs, "uint", "bool")
    /\ ~Contains(cfs, "uint16", "bool")
    /\ MarkedNotConvertible = { << "uint8", "bool" >> }

---------------------------------------------------------------------------
(* The verdicts of the real build: what the report says when the stream is *)
(* the one the Go compiler wrote for the generated file                    *)

\* the pairs the report marks convertible
MarkedConvertible ==
    { PairOf(log[k]) : k \in { x \in 1..Len(log) : IsResult(log[x]) /\ GlyphOf(log[x]) = Convertible } }

\* Report has run on the Failure Set extracted from the real build's stream
ReportedRealBuild == Reported /\ stderrContent = CompilerStream

\* C11: for every type A of the catalog, the report says convertible for the
\* self-pair (A, A), in every report the program produces.  Nothing in
\* Compile or Report treats a self-pair specially: the verdict follows from
\* the compiler raising no "cannot convert" diagnostic for an identity
\* conversion.
C11_SelfPairsReportedConvertible ==
    Reported =>
        LET passed == MarkedConvertible
            marked == MarkedNotConvertible
        IN \A a \in TypeNames : << a, a >> \in passed /\ << a, a >> \notin marked

\* the real build's 117 diagnostics were extracted and reported, no self-pair
\* among the entries, each self-pair marked convertible
C11_Witness ==
    /\ ReportedRealBuild
    /\ pc = "Exited"
    /\ runErr = ExitError(2)
    /\ Len(cfs) = 117
    /\ \A i \in 1..Len(cfs) : cfs[i].From # cfs[i].To
    /\ { << a, a >> : a \in TypeNames } \subseteq MarkedConvertible

\* the catalog's names by kind of type
IntegerTypes ==
    { "uint8", "uint16", "uint32", "uint64", "int8", "int16", "int32", "int64",
      "int", "uint", "uintptr", "byte", "rune" }
FloatTypes == { "float32", "float64" }
ComplexTypes == { "complex64", "complex128" }
NumericTypes == IntegerTypes \cup FloatTypes \cup ComplexTypes

\* C12, as stated: in the report of the real build, every pair of the string
\* type and a numeric type is marked not-convertible, in both directions.
C12_StringAndNumericNeverConvert ==
    ReportedRealBuild =>
        \A n \in NumericTypes :
            /\ << "string", n >> \in MarkedNotConvertible
            /\ << n, "string" >> \in MarkedNotConvertible

\* C12, amended: in the report of the real build, string to any numeric type
\* is marked not-convertible; a numeric type to string is marked
\* not-convertible when it is a float or complex type and convertible when
\* it is an integer type (byte and rune included).
C12_StringToNumericNeverIntegerToStringDoes ==
    ReportedRealBuild =>
        \A n \in NumericTypes :
            /\ << "string", n >> \in MarkedNotConvertible
            /\ << "string", n >> \notin MarkedConvertible
            /\ << n, "string" >> \in MarkedConvertible <=> n \in IntegerTypes
            /\ << n, "string" >> \in MarkedNotConvertible <=> n \notin IntegerTypes

\* the real build reported: uint8 to string convertible, string to uint8 and
\* float64 to string not
C12_Witness ==
    /\ ReportedRealBuild
    /\ InFailureSet("string", "uint8")
    /\ InFailureSet("float64", "string")
    /\ ~InFailureSet("uint8", "string")
    /\ << "uint8", "string" >> \in MarkedConvertible
    /\ << "string", "uint8" >> \in MarkedNotConvertible
    /\ << "float64", "string" >> \in MarkedNotConvertible

\* C13: in the report of the real build, for every catalog type B other than
\* bool both (bool, B) and (B, bool) are marked not-convertible.
C13_BoolIsolated ==
    ReportedRealBuild =>
        \A b \in TypeNames \ { "bool" } :
            /\ << "bool", b >> \in MarkedNotConvertible
            /\ << b, "bool" >> \in MarkedNotConvertible
            /\ << "bool", b >> \notin MarkedConvertible
            /\ << b, "bool" >> \notin MarkedConvertible

\* the real build reported, the 36 pairs of bool and another type among the
\* entries of the Failure Set and marked not-convertible
C13_Witness ==
    /\ ReportedRealBuild
    /\ \A b \in TypeNames \ { "bool" } : InFailureSet("bool", b) /\ InFailureSet(b, "bool")
    /\ Cardinality({ pr \in MarkedNotConvertible : (pr[1] = "bool") # (pr[2] = "bool") }) = 36
    /\ << "bool", "bool" >> \in MarkedConvertible

\* the alias names of the catalog, each with the type it is an alias of
Aliases == { << "byte", "uint8" >>, << "rune", "int32" >> }

\* C14: in the report of the real build, an alias and the type it aliases are
\* marked convertible in both directions, and the alias has the verdict of
\* the aliased type against every catalog type, as source and as destination.
C14_AliasesAgreeWithAliased ==
    ReportedRealBuild =>
        \A al \in Aliases :
            /\ << al[1], al[2] >> \in MarkedConvertible
            /\ << al[2], al[1] >> \in MarkedConvertible
            /\ \A x \in TypeNames :
                 /\ << al[1], x >> \in MarkedConvertible <=> << al[2], x >> \in MarkedConvertible
                 /\ << x, al[1] >> \in MarkedConvertible <=> << x, al[2] >> \in MarkedConvertible
                 /\ << al[1], x >> \in MarkedNotConvertible <=> << al[2], x >> \in MarkedNotConvertible
                 /\ << x, al[1] >> \in MarkedNotConvertible <=> << x, al[2] >> \in MarkedNotConvertible

\* the real build reported: rune and int32 convert to one another, and both
\* are rejected as complex128 and as the destination of a string
C14_Witness ==
    /\ ReportedRealBuild
    /\ << "rune", "int32" >> \in MarkedConvertible
    /\ << "int32", "rune" >> \in MarkedConvertible
    /\ << "byte", "uint8" >> \in MarkedConvertible
    /\ << "uint8", "byte" >> \in MarkedConvertible
    /\ cfs[Len(cfs)] = [From |-> "rune", To |-> "complex128"]
    /\ InFailureSet("int32", "complex128")
    /\ { << "rune", "complex128" >>, << "int32", "complex128" >>,
         << "string", "rune" >>, << "string", "int32" >> } \subseteq MarkedNotConvertible

\* the pairs the Failure Set holds
FailurePairs == { << cfs[i].From, cfs[i].To >> : i \in 1..Len(cfs) }

\* C15: the report is not symmetric.  In the report of the real build
\* rune -> string is marked convertible and string -> rune not-convertible,
\* the Failure Set holding (string, rune) and not (rune, string); and in
\* every report a pair that is in the Failure Set while its reverse is not is
\* marked not-convertible while the reverse is marked convertible: neither
\* verdict is derived from the other.
C15_ReportNotSymmetric ==
    /\ ReportedRealBuild =>
          /\ << "rune", "string" >> \in MarkedConvertible
          /\ << "string", "rune" >> \in MarkedNotConvertible
          /\ << "string", "rune" >> \in FailurePairs
          /\ << "rune", "string" >> \notin FailurePairs
    /\ Reported =>
          LET pairs == FailurePairs
              marked == MarkedNotConvertible
              passed == MarkedConvertible
          IN \A pr \in pairs \cap (TypeNames \X TypeNames) :
                << pr[2], pr[1] >> \notin pairs =>
                    /\ pr \in marked /\ pr \notin passed
                    /\ << pr[2], pr[1] >> \in passed /\ << pr[2], pr[1] >> \notin marked

\* the real build reported, with its 13 one-way pairs (integer -> string)
\* marked convertible and their reverses not
C15_Witness ==
    /\ ReportedRealBuild
    /\ << "rune", "string" >> \in MarkedConvertible
    /\ << "string", "rune" >> \in MarkedNotConvertible
    /\ Cardinality({ pr \in MarkedConvertible : << pr[2], pr[1] >> \in MarkedNotConvertible }) = 13

---------------------------------------------------------------------------
(* Generate and what varies between runs *)

\* C16: Generate is deterministic in the catalog.  When Generate has
\* succeeded, the source it wrote is byte for byte the source a run with the
\* same catalog and the same template file writes at any other reading of
\* the clock and under any other invocation name.
C16_WrittenSourceSameAcrossRuns ==
    GenerateSucceeded =>
        \A n \in Nows, a \in Apps : written = Execute(template, Data(n, a)).out

---------------------------------------------------------------------------
(* The end of the run *)

\* the entry main's deferred function logs
IsDuration(entry) ==
    entry.level = "info" /\ \E d \in Durations : entry.msg = "execution took " \o d

\* C17: every run reports its elapsed duration as the last thing it does,
\* however it ends: when the process has exited, the last entry of the log
\* is the duration, and it is the only one.
C17_DurationReportedLastHoweverRunEnds ==
    pc = "Exited" =>
        /\ Len(log) > 0
        /\ IsDuration(log[Len(log)])
        /\ \A k \in 1..(Len(log) - 1) : ~IsDuration(log[k])

---------------------------------------------------------------------------
(* Extraction, line by line *)

\* Compile has just acted on the stream: it returned a Failure Set to Main,
\* which is about to call Report, or it panicked
ExtractionDone == CompileProceeded /\ pc \in { "Report", "Panicking" }

\* C18: extraction retains exactly the lines that contain "cannot convert".
\* Once Compile has split the stream, the lines its first loop keeps are the
\* marker lines in order; the Failure Set it returns is the one extracted
\* from the marker lines alone, one entry per marker line; it fails exactly
\* when a marker line has no match; and a stream without a marker line
\* gives an empty Failure Set and no failure, whatever its lines are.
C18_OnlyMarkerLinesCount ==
    ExtractionDone =>
        LET lines == MarkerLines
            matches == Submatches(lines)
        IN /\ ConversionErrs(stderrLines) = lines
           /\ CompileReturnedFailures =>
                 /\ cfs = ExtractFailures(matches)
                 /\ Len(cfs) = Len(lines)
           /\ (panicValue # "") <=> (\E i \in 1..Len(lines) : matches[i] = << >>)
           /\ Len(lines) = 0 => (CompileReturnedFailures /\ cfs = << >> /\ panicValue = "")

\* a stream of a compiler error that is no conversion error, one the pattern
\* matches, and a conversion error: one entry, for the conversion error
C18_Witness ==
    /\ ExtractionDone
    /\ CompileReturnedFailures
    /\ Len(stderrLines) = 2
    /\ ~HasMarker(stderrLines[1])
    /\ FindStringSubmatch(stderrLines[1]) # << >>
    /\ HasMarker(stderrLines[2])
    /\ cfs = << [From |-> "bool", To |-> "uint8"] >>

\* what the compiler calls an operand of type A: "variable of type A" (the
\* type checker of the README's date) or "type A" (the one before it)
OperandDescriptions(a) == { "variable of type " \o a, "type " \o a }

\* what follows the location in a line of the expected shape that names A
\* and B: ": cannot convert p.A (<description>) to type B"
ExpectedRests ==
    [ pr \in TypeNames \X TypeNames |->
        { Diagnostic("", pr[1], operand, pr[2]) : operand \in OperandDescriptions(pr[1]) } ]

\* the line ends with the text
HasSuffix(line, text) ==
    Len(line) >= Len(text) /\ SubSeq(line, Len(line) - Len(text) + 1, Len(line)) = text

\* the line is a location followed by one of these
HasExpectedShape(line, a, b) ==
    \E rest \in ExpectedRests[<< a, b >>] :
        /\ Len(line) > Len(rest)
        /\ SubSeq(line, Len(line) - Len(rest) + 1, Len(line)) = rest

\* C19: for a diagnostic line of the expected shape, "<location>: cannot
\* convert p.A (<description of the operand>) to type B" with A and B names
\* of the catalog, extraction appends exactly the entry (From = A, To = B):
\* the i-th marker line being such a line, it has a match whose groups are A
\* and B, and the i-th entry of the Failure Set has From = A and To = B.
C19_ExpectedShapeGivesExactEntry ==
    ExtractionDone =>
        LET lines == MarkerLines
            matches == Submatches(lines)
        IN \A i \in 1..Len(lines) :
              \A b \in { x \in TypeNames : HasSuffix(lines[i], LitToType \o x) } :
                  \A a \in TypeNames :
                      HasExpectedShape(lines[i], a, b) =>
                          /\ matches[i] # << >>
                          /\ matches[i][2] = a
                          /\ matches[i][3] = b
                          /\ CompileReturnedFailures => cfs[i] = [From |-> a, To |-> b]

\* Compile returned the entries of the real build's stream: 117 lines of the
\* expected shape, each giving the entry of its two names
C19_Witness ==
    /\ ExtractionDone
    /\ CompileReturnedFailures
    /\ stderrContent = CompilerStream
    /\ Len(MarkerLines) = 117
    /\ HasExpectedShape(MarkerLines[1], "bool", "uint8")
    /\ cfs[1] = [From |-> "bool", To |-> "uint8"]
    /\ HasExpectedShape(MarkerLines[117], "rune", "complex128")
    /\ cfs[117] = [From |-> "rune", To |-> "complex128"]

\* C20: every entry of the Failure Set Compile returns is a pair of the
\* catalog: its From and its To are names of the catalog, and so, once the
\* report is out, every pair of the Failure Set is marked not-convertible in
\* it.
C20_EveryEntryIsCatalogPair ==
    /\ CompileReturnedFailures =>
          \A i \in 1..Len(cfs) : cfs[i].From \in TypeNames /\ cfs[i].To \in TypeNames
    /\ Reported => FailurePairs \subseteq MarkedNotConvertible

============================================================================
